---- MODULE Spec2Model ----
(***************************************************************************)
(* Model of clinical-filter's inheritance-classification core:             *)
(*   Filter.__init__, Filter.create_gene_dict, Filter.find_variants,       *)
(*   Filter.exclude_duplicates (clinicalfilter/filter.py),                 *)
(*   TrioGenotypes (clinicalfilter/trio_genotypes.py),                     *)
(*   the loaders of clinicalfilter/load_files.py, and the CNVInheritance   *)
(*   methods that tests/test_cnv_inheritance.py exercises.                 *)
(*                                                                         *)
(* Python lists are TLA+ sequences, Python tuples are TLA+ tuples (1-based *)
(* here, 0-based in the source), a Python dict is a sequence of            *)
(* [key, val] entries in insertion order (the iteration order of a dict).  *)
(***************************************************************************)
EXTENDS Integers, Sequences, FiniteSets, TLC

VARIABLES
    pc,            \* position inside Filter.analyse_trio
    known_genes,   \* self.known_genes
    variants,      \* the trio's TrioGenotypes records (analyse_trio line 112)
    genes_dict,    \* genes_dict, the result of create_gene_dict
    todo,          \* index of the next bucket of `for gene in genes_dict`
    call,          \* what the last find_variants call did (history)
    found_vars,    \* found_vars before exclude_duplicates (its argument)
    arg_before,    \* the argument of the last exclude_duplicates call, as it was on entry (history)
    unique_vars,   \* the list exclude_duplicates returned
    raised,        \* the exception that left analyse_trio, or "none"
    log,           \* the calls analyse_trio has made so far, in order (history)
    trio,          \* one TrioGenotypes object (child, mother, father, inheritance_type)
    pp_filter,     \* the pp_filter argument of passes_de_novo_checks
    passes,        \* the value passes_de_novo_checks returned, or "unset"
    this,          \* the left operand of a comparison of two TrioGenotypes (self)
    other,         \* the right operand of the comparison
    cmp,           \* what this == other, this != other, this < other, other < this gave
    classifier,    \* a CNVInheritance object: its known_gene and the parents' affected status
    cnv_record,    \* the child's side of the CNV handed to the CNVInheritance methods
    answer,        \* the last call of a CNVInheritance method and what it returned
    paths,         \* the known_genes, alternate_ids and regions arguments of Filter.__init__
    disk,          \* the files behind the paths, and the PermissionErrors still to come
    retry,         \* retry of the running open_file call
    self_filter,   \* self.known_genes, self.id_mapper, self.cnv_regions as __init__ assigns them
    init_raised    \* the exception that left Filter.__init__, and the loader it came from

vars == <<pc, known_genes, variants, genes_dict, todo, call, found_vars,
          arg_before, unique_vars, raised, log, trio, pp_filter, passes,
          this, other, cmp, classifier, cnv_record, answer,
          paths, disk, retry, self_filter, init_raised>>

---------------------------------------------------------------------------
(* Bounds *)

\* longest list of records handed to create_gene_dict
MaxRecords == 3
\* longest gene bucket handed to find_variants
MaxBucket == 2
\* longest candidate list handed to exclude_duplicates
MaxCandidates == 3

---------------------------------------------------------------------------
(* Sequence helpers: Python's `in`, list comprehension and `+=` on lists *)

Range(s) == {s[i] : i \in 1..Len(s)}

InList(x, s) == \E i \in 1..Len(s) : s[i] = x

NoRepeats(s) == \A i, j \in 1..Len(s) : s[i] = s[j] => i = j

\* the duplicate-free sequences over S of length lo..hi
DistinctSeqs(S, lo, hi) ==
    {s \in UNION {[1..n -> S] : n \in lo..hi} : NoRepeats(s)}

\* the sequences over S of length at most n
SeqsUpTo(S, n) == UNION {[1..k -> S] : k \in 0..n}

---------------------------------------------------------------------------
(* Domain: gene symbols, records *)

None == "None"

Genes == {"g1", "g2"}

\* what child.get_genes() returns: no symbol, one, or several; None marks an
\* intergenic locus
GeneLists == DistinctSeqs(Genes \cup {None}, 0, 2)

InheritanceTypes == {"autosomal", "XChrMale", "XChrFemale", "YChrMale", "YChrFemale"}

\* the categories the records of one child can carry
TypesOfSex(sex) ==
    IF sex = "M" THEN {"autosomal", "XChrMale", "YChrMale"}
    ELSE {"autosomal", "XChrFemale", "YChrFemale"}

Consequences == {"lof", "missense", "other"}

\* var.get_genes(), var.is_cnv(), var.get_inheritance_type(), var.child.get_key()
get_genes(var) == var.genes

is_cnv(var) == var.cnv

get_inheritance_type(var) == var.inheritance_type

get_key(var) == var.key

\* var.child.is_lof(gene), var.child.is_missense(gene): the consequence of the
\* record is looked up per gene
is_lof(var, gene) == var.cq[gene] = "lof"

is_missense(var, gene) == var.cq[gene] = "missense"

\* a record: `id` is the object's identity, `key` its chromosome/position key,
\* `cq` its consequence class for each gene symbol
Record(id, key, genes, cnv, inh, cq) ==
    [id |-> id, key |-> key, genes |-> genes, cnv |-> cnv,
     inheritance_type |-> inh, cq |-> cq]

---------------------------------------------------------------------------
(* Filter.create_gene_dict, filter.py:132-153 *)

HasKey(dict, k) == \E i \in 1..Len(dict) : dict[i].key = k

IndexOf(dict, k) == CHOOSE i \in 1..Len(dict) : dict[i].key = k

Get(dict, k) == dict[IndexOf(dict, k)].val

\* AddToGene with the bucket assigned instead of appended to
\* (genes[gene] = [var] on every visit)
AddToGene_overwrite(genes, gene, var) ==
    LET withKey == IF HasKey(genes, gene) THEN genes
                   ELSE Append(genes, [key |-> gene, val |-> <<>>])
        i == IndexOf(withKey, gene)
    IN [withKey EXCEPT ![i].val = <<var>>]

\* lines 148-151 for one (var, gene): create the bucket if missing, then append
AddToGene(genes, gene, var) ==
    LET withKey == IF HasKey(genes, gene) THEN genes
                   ELSE Append(genes, [key |-> gene, val |-> <<>>])
        i == IndexOf(withKey, gene)
    IN [withKey EXCEPT ![i].val = Append(@, var)]

RECURSIVE AddGenesOf(_, _, _, _)
\* the inner loop `for gene in var.get_genes()` from its g-th gene on
AddGenesOf(genes, var, gs, g) ==
    IF g > Len(gs) THEN genes
    ELSE AddGenesOf(AddToGene(genes, gs[g], var), var, gs, g + 1)

RECURSIVE GroupFrom(_, _, _)
\* the outer loop `for var in variants` from its i-th record on
GroupFrom(vs, i, genes) ==
    IF i > Len(vs) THEN genes
    ELSE GroupFrom(vs, i + 1, AddGenesOf(genes, vs[i], get_genes(vs[i]), 1))

create_gene_dict(vs) == GroupFrom(vs, 1, <<>>)

---------------------------------------------------------------------------
(* Filter.exclude_duplicates, filter.py:207-240                            *)
(* A candidate is the tuple (variant, check_types, inheritance, hgnc).     *)

\* ExtendNew without the `if x not in acc` filter
ExtendNew_unfiltered(acc, xs) == acc \o xs

\* `acc += [x for x in xs if x not in acc]`: the comprehension is evaluated
\* against acc as it is before the extension
ExtendNew(acc, xs) == acc \o SelectSeq(xs, LAMBDA x : ~InList(x, acc))

\* MergeInto with the later occurrence's record taking the entry's place
MergeInto_lastRecord(entry, variant) ==
    <<variant[1], ExtendNew(entry[2], variant[2]), ExtendNew(entry[3], variant[3]),
      ExtendNew(entry[4], variant[4])>>

\* MergeInto with the new gene symbols put in front of the known ones
MergeInto_genesInFront(entry, variant) ==
    <<entry[1], ExtendNew(entry[2], variant[2]), ExtendNew(entry[3], variant[3]),
      SelectSeq(variant[4], LAMBDA x : ~InList(x, entry[4])) \o entry[4]>>

\* MergeInto with the later occurrence dropped
MergeInto_keepFirst(entry, variant) == entry

\* lines 224-236: merge a later occurrence into the entry of its key
MergeInto(entry, variant) ==
    <<entry[1], ExtendNew(entry[2], variant[2]), ExtendNew(entry[3], variant[3]),
      ExtendNew(entry[4], variant[4])>>

RECURSIVE MergeFrom(_, _, _)
\* the loop of lines 219-236 from the i-th candidate on; `first` is the index
\* of the input candidate whose lists the entry shares (list(variant) copies
\* the tuple, not the lists in it)
MergeFrom(vs, i, unique) ==
    IF i > Len(vs) THEN unique
    ELSE LET variant == vs[i]
             key == get_key(variant[1])
         IN IF ~HasKey(unique, key)
            THEN MergeFrom(vs, i + 1,
                     Append(unique, [key |-> key, val |-> variant, first |-> i]))
            ELSE MergeFrom(vs, i + 1,
                     [unique EXCEPT ![IndexOf(unique, key)].val = MergeInto(@, variant)])

\* exclude_duplicates with the entries listed last-inserted first
exclude_duplicates_reversed(vs) ==
    LET unique == MergeFrom(vs, 1, <<>>)
    IN [i \in 1..Len(unique) |-> unique[Len(unique) + 1 - i].val]

\* line 238: the entries in the dict's order
exclude_duplicates(vs) ==
    LET unique == MergeFrom(vs, 1, <<>>)
    IN [i \in 1..Len(unique) |-> unique[i].val]

\* the argument list after the call: the lists of a key's first candidate are
\* the very lists the `+=` of lines 230-236 extended
ArgAfter(vs) ==
    LET unique == MergeFrom(vs, 1, <<>>)
    IN [i \in 1..Len(vs) |->
          IF \E j \in 1..Len(unique) : unique[j].first = i
          THEN (CHOOSE e \in Range(unique) : e.first = i).val
          ELSE vs[i]]

---------------------------------------------------------------------------
(* Filter.find_variants, filter.py:155-205 *)

\* self.known_genes: None, or a dict from gene symbol to an entry; `fields`
\* are the keys every entry of the loaded table carries
NoPanel == [is_none |-> TRUE, genes |-> {}, fields |-> {}]

Panel(genes, fields) == [is_none |-> FALSE, genes |-> genes, fields |-> fields]

\* the entry keys of the classifier fixtures (tests/test_cnv_inheritance.py:49)
\* and of open_known_genes (load_files.py:105-114)
FixtureFields == {"inh", "status", "start", "end"}

LoaderFields == {"inheritance", "confirmed_status", "start", "end", "chrom"}

\* line 170: self.known_genes is not None and gene in self.known_genes
InPanel(kg, gene) == ~kg.is_none /\ gene \in kg.genes

\* line 171: self.known_genes[gene]["inh"] raises KeyError without that key
InhLookupRaises(kg, gene) == InPanel(kg, gene) /\ "inh" \notin kg.fields

\* AfterPanel without the CNV-only filter
AfterPanel_keepAll(vs, gene, kg) == vs

\* lines 177-178: outside the panel only CNVs are kept
AfterPanel(vs, gene, kg) ==
    IF ~kg.is_none /\ gene \notin kg.genes
    THEN SelectSeq(vs, is_cnv)
    ELSE vs

\* line 189: the functional-category gate
Functional(vs, gene) ==
    SelectSeq(vs, LAMBDA var : is_lof(var, gene) \/ is_missense(var, gene))

\* lines 197-200: the classifier chosen from the first remaining record;
\* "unbound" when neither branch assigns `finder`
Finder(chrom_inheritance) ==
    IF chrom_inheritance = "autosomal" THEN "Autosomal"
    ELSE IF chrom_inheritance \in {"XChrMale", "XChrFemale", "YChrMale"} THEN "Allosomal"
    ELSE "unbound"

\* the deterministic part of find_variants up to line 200
find_variants(vs, gene, kg) ==
    LET kept == AfterPanel(vs, gene, kg)
        functional == IF gene = None THEN <<>> ELSE Functional(kept, gene)
        finder == IF functional = <<>> THEN "none"
                  ELSE Finder(get_inheritance_type(functional[1]))
    IN [gene |-> gene, bucket |-> vs,
        raised |-> IF InhLookupRaises(kg, gene) THEN "KeyError"
                   ELSE IF finder = "unbound" THEN "UnboundLocalError"
                   ELSE "none",
        kept |-> IF InhLookupRaises(kg, gene) THEN <<>> ELSE kept,
        functional |-> IF InhLookupRaises(kg, gene) THEN <<>> ELSE functional,
        finder |-> IF InhLookupRaises(kg, gene) THEN "none" ELSE finder,
        finder_vars |-> IF InhLookupRaises(kg, gene) \/ finder \in {"none", "unbound"}
                        THEN <<>> ELSE functional]

\* finder.get_candidate_variants(): (variant, check_types, inheritance) for
\* some of the records handed over, the two tag sets shared by one call
CheckSets == {{"single_variant"}, {"compound_het"}}

ModeSets(finder) ==
    IF finder = "Autosomal"
    THEN {{"Monoallelic"}, {"Monoallelic", "Biallelic"}}
    ELSE {{"Hemizygous"}, {"Hemizygous", "X-linked dominant"}}

\* list(x): the elements of a set in an order the set's hashing picks
ListsOf(S) == {s \in [1..Cardinality(S) -> S] : Range(s) = S}

\* the elements of s at the positions I, in the order of s
SubSeqAt(s, I) ==
    LET F[k \in 0..Len(s)] ==
            IF k = 0 THEN <<>>
            ELSE IF k \in I THEN Append(F[k - 1], s[k]) ELSE F[k - 1]
    IN F[Len(s)]

\* line 203: (x[0], list(x[1]), list(x[2]), [gene]) for each candidate
Tagged(vs, checks, modes, gene) ==
    [i \in 1..Len(vs) |-> <<vs[i], checks, modes, <<gene>>>>]

NoCall == [gene |-> None, bucket |-> <<>>, raised |-> "none", kept |-> <<>>,
           functional |-> <<>>, finder |-> "none", finder_vars |-> <<>>,
           returned |-> <<>>]

---------------------------------------------------------------------------
(* Filter.analyse_trio, filter.py:112-130, one action per statement *)

\* the variables of analyse_trio other than its position
pipeline_vars == <<known_genes, variants, genes_dict, todo, call, found_vars,
                   arg_before, unique_vars, raised, log>>

\* a call of analyse_trio: the method, the gene of a find_variants call, the
\* list handed over and the list returned
Called_(fn, gene, arg, returned) ==
    [fn |-> fn, gene |-> gene, arg |-> arg, returned |-> returned]

denovo_vars == <<trio, pp_filter, passes>>

order_vars == <<this, other, cmp>>

\* the variables analyse_trio and passes_de_novo_checks do not touch
cnv_vars == <<classifier, cnv_record, answer>>

load_vars == <<paths, disk, retry, self_filter, init_raised>>

aside_vars == <<order_vars, cnv_vars, load_vars>>

\* line 116
CreateGeneDict ==
    /\ pc = "start"
    /\ genes_dict' = create_gene_dict(variants)
    /\ todo' = 1
    /\ pc' = IF create_gene_dict(variants) = <<>> THEN "merge" ELSE "genes"
    /\ log' = Append(log, Called_("create_gene_dict", None, <<>>, <<>>))
    /\ UNCHANGED <<known_genes, variants, call, found_vars, arg_before,
                   unique_vars, raised, denovo_vars, aside_vars>>

\* AfterBucket with the loop left after its first pass
AfterBucket_afterFirst == "merge"

\* line 118: the loop goes on while a bucket is left
AfterBucket == IF todo + 1 > Len(genes_dict) THEN "merge" ELSE "genes"

\* lines 118-120, one pass of the loop: find_variants raises
FindVariantsRaises ==
    /\ pc = "genes"
    /\ LET r == find_variants(genes_dict[todo].val, genes_dict[todo].key, known_genes)
       IN /\ r.raised # "none"
          /\ call' = r @@ [returned |-> <<>>]
          /\ raised' = r.raised
          /\ log' = Append(log, Called_("find_variants", r.gene, r.bucket, <<>>))
    /\ pc' = "raised"
    /\ UNCHANGED <<known_genes, variants, genes_dict, todo, found_vars,
                   arg_before, unique_vars, denovo_vars, aside_vars>>

\* lines 118-120, one pass of the loop: find_variants returns [] at line 185 or 191
FindVariantsEmpty ==
    /\ pc = "genes"
    /\ LET r == find_variants(genes_dict[todo].val, genes_dict[todo].key, known_genes)
       IN /\ r.raised = "none"
          /\ r.finder = "none"
          /\ call' = r @@ [returned |-> <<>>]
          /\ log' = Append(log, Called_("find_variants", r.gene, r.bucket, <<>>))
    /\ todo' = todo + 1
    /\ pc' = AfterBucket
    /\ UNCHANGED <<known_genes, variants, genes_dict, found_vars, arg_before,
                   unique_vars, raised, denovo_vars, aside_vars>>

\* lines 118-120, one pass of the loop: find_variants runs a classifier
FindVariantsClassify ==
    /\ pc = "genes"
    /\ LET r == find_variants(genes_dict[todo].val, genes_dict[todo].key, known_genes)
       IN /\ r.raised = "none"
          /\ r.finder \in {"Autosomal", "Allosomal"}
          /\ \E I \in SUBSET (1..Len(r.finder_vars)) :
             \E checkset \in CheckSets, modeset \in ModeSets(r.finder) :
             \E checks \in ListsOf(checkset), modes \in ListsOf(modeset) :
                LET out == Tagged(SubSeqAt(r.finder_vars, I), checks, modes, r.gene)
                IN /\ call' = r @@ [returned |-> out]
                   /\ found_vars' = found_vars \o out
                   /\ log' = Append(log, Called_("find_variants", r.gene, r.bucket, out))
    /\ todo' = todo + 1
    /\ pc' = AfterBucket
    /\ UNCHANGED <<known_genes, variants, genes_dict, arg_before, unique_vars,
                   raised, denovo_vars, aside_vars>>

\* line 124: found_vars = self.exclude_duplicates(found_vars)
ExcludeDuplicates ==
    /\ pc = "merge"
    /\ arg_before' = found_vars
    /\ found_vars' = ArgAfter(found_vars)
    /\ unique_vars' = exclude_duplicates(found_vars)
    /\ log' = Append(log, Called_("exclude_duplicates", None, found_vars,
                                  exclude_duplicates(found_vars)))
    /\ pc' = "merged"
    /\ UNCHANGED <<known_genes, variants, genes_dict, todo, call, raised, denovo_vars, aside_vars>>

\* exclude_duplicates applied to the list it returned
ExcludeDuplicatesAgain ==
    /\ pc = "merged"
    /\ arg_before' = unique_vars
    /\ found_vars' = ArgAfter(unique_vars)
    /\ unique_vars' = exclude_duplicates(unique_vars)
    /\ log' = Append(log, Called_("exclude_duplicates", None, unique_vars,
                                  exclude_duplicates(unique_vars)))
    /\ pc' = "merged twice"
    /\ UNCHANGED <<known_genes, variants, genes_dict, todo, call, raised, denovo_vars, aside_vars>>

---------------------------------------------------------------------------
(* Idle values of the variables a specification does not use *)

NoTrio == [inheritance_type |-> "autosomal", child |-> 0,
           mother |-> [attached |-> FALSE, genotype |-> 0],
           father |-> [attached |-> FALSE, genotype |-> 0],
           info |-> {}, format |-> <<>>]

DeNovoIdle == trio = NoTrio /\ pp_filter = 0 /\ passes = "unset"

NoComparison == [eq |-> "unset", ne |-> "unset", lt |-> "unset", gt |-> "unset",
                 hash_eq |-> "unset"]

NoRecord == [chrom |-> "1", position |-> "5", child |-> 0, cnv |-> FALSE]

OrderIdle == this = NoRecord /\ other = NoRecord /\ cmp = NoComparison

NoClassifier ==
    [known_gene |-> [inh |-> <<>>, start |-> 0, end |-> 0],
     mother_status |-> "1", father_status |-> "1"]

NoCnv == [genotype |-> "DUP", CNS |-> "3", position |-> 0, end |-> 0,
          INHERITANCE |-> "unknown", CIFER_INHERITANCE |-> "unknown"]

NoAnswer == [fn |-> "none", args |-> <<>>, value |-> "unset"]

CnvIdle == classifier = NoClassifier /\ cnv_record = NoCnv /\ answer = NoAnswer

NoPaths == [known_genes |-> None, alternate_ids |-> None, regions |-> None]

NoDisk == [blocked |-> 0, header |-> "type", genes |-> <<>>, regions |-> <<>>]

Unset == [set |-> FALSE, value |-> <<>>]

NotConstructed == [known_genes |-> Unset, id_mapper |-> Unset, cnv_regions |-> Unset]

NotRaised == [exception |-> "none", in |-> "none"]

LoadIdle ==
    /\ paths = NoPaths
    /\ disk = NoDisk
    /\ retry = 0
    /\ self_filter = NotConstructed
    /\ init_raised = NotRaised

AsideIdle == OrderIdle /\ CnvIdle /\ LoadIdle

PipelineIdle ==
    /\ known_genes = NoPanel
    /\ variants = <<>>
    /\ genes_dict = <<>>
    /\ todo = 1
    /\ call = NoCall
    /\ found_vars = <<>>
    /\ arg_before = <<>>
    /\ unique_vars = <<>>
    /\ raised = "none"
    /\ log = <<>>

---------------------------------------------------------------------------
(* create_gene_dict on every record list within the bounds *)

AllSymbols == Genes \cup {None}

\* the records of a list carry their position as identity and as locus
GroupRecords(n) ==
    {[i \in 1..n |-> Record(i, i, gl[i], FALSE, "autosomal", [g \in AllSymbols |-> "lof"])] :
        gl \in [1..n -> GeneLists]}

InitGeneDict ==
    /\ pc = "start"
    /\ variants \in UNION {GroupRecords(n) : n \in 0..MaxRecords}
    /\ known_genes = NoPanel
    /\ genes_dict = <<>>
    /\ todo = 1
    /\ call = NoCall
    /\ found_vars = <<>>
    /\ arg_before = <<>>
    /\ unique_vars = <<>>
    /\ raised = "none"
    /\ log = <<>>
    /\ DeNovoIdle
    /\ AsideIdle

SpecGeneDict == InitGeneDict /\ [][CreateGeneDict]_vars

---------------------------------------------------------------------------
(* find_variants on every gene bucket within the bounds *)

Panels == {NoPanel, Panel({"g1"}, FixtureFields), Panel({"g1"}, LoaderFields)}

\* a bucket of create_gene_dict for `gene`: every record names the gene
Buckets(gene, sex, n) ==
    {[i \in 1..n |-> Record(i, i, <<gene>>, a[i].cnv, a[i].inheritance_type,
                            [g \in AllSymbols |-> a[i].cq])] :
        a \in [1..n -> [cnv : BOOLEAN, inheritance_type : TypesOfSex(sex),
                        cq : Consequences]]}

InitFind ==
    /\ pc = "genes"
    /\ known_genes \in Panels
    /\ \E gene \in AllSymbols, sex \in {"M", "F"}, n \in 1..MaxBucket :
         /\ variants \in Buckets(gene, sex, n)
         /\ genes_dict = <<[key |-> gene, val |-> variants]>>
    /\ todo = 1
    /\ call = NoCall
    /\ found_vars = <<>>
    /\ arg_before = <<>>
    /\ unique_vars = <<>>
    /\ raised = "none"
    /\ log = <<>>
    /\ DeNovoIdle
    /\ AsideIdle

NextFind == FindVariantsRaises \/ FindVariantsEmpty \/ FindVariantsClassify

SpecFind == InitFind /\ [][NextFind]_vars

---------------------------------------------------------------------------
(* exclude_duplicates on every candidate list within the bounds *)

\* three records on two loci: the first two share their key
MergeRecords ==
    {Record(1, 1, <<"g1">>, FALSE, "autosomal", [g \in AllSymbols |-> "lof"]),
     Record(2, 1, <<"g1">>, TRUE, "autosomal", [g \in AllSymbols |-> "lof"]),
     Record(3, 2, <<"g2">>, TRUE, "autosomal", [g \in AllSymbols |-> "lof"])}

CheckTypes == {"single_variant", "compound_het"}

Modes == {"Monoallelic", "Biallelic"}

\* candidates as find_variants builds them (one gene symbol each), and
\* candidates carrying two-element lists, as an earlier merge leaves them
Candidates ==
    {<<r, <<c>>, <<m>>, <<g>>>> : r \in MergeRecords, c \in CheckTypes, m \in Modes, g \in Genes}
    \cup {<<r, <<"compound_het", "single_variant">>, <<"Biallelic", "Monoallelic">>,
            <<"g2", "g1">>>> : r \in MergeRecords}

InitMerge ==
    /\ pc = "merge"
    /\ found_vars \in SeqsUpTo(Candidates, MaxCandidates)
    /\ known_genes = NoPanel
    /\ variants = <<>>
    /\ genes_dict = <<>>
    /\ todo = 1
    /\ call = NoCall
    /\ arg_before = <<>>
    /\ unique_vars = <<>>
    /\ raised = "none"
    /\ log = <<>>
    /\ DeNovoIdle
    /\ AsideIdle

NextMerge == ExcludeDuplicates \/ ExcludeDuplicatesAgain

SpecMerge == InitMerge /\ [][NextMerge]_vars

---------------------------------------------------------------------------
(* analyse_trio from the trio's records to the post-inheritance filter *)

\* the records of a trio handed to analyse_trio
MaxTrio == 2

\* lines 127-130: PostInheritanceFilter(found_vars, ...).filter_variants();
\* found_vars is by then the list exclude_duplicates returned, and the
\* filter hands back some of its candidates
FilterVariants ==
    /\ pc = "merged"
    /\ \E I \in SUBSET (1..Len(unique_vars)) :
         log' = Append(log, Called_("filter_variants", None, unique_vars,
                                    SubSeqAt(unique_vars, I)))
    /\ pc' = "done"
    /\ UNCHANGED <<known_genes, variants, genes_dict, todo, call, found_vars,
                   arg_before, unique_vars, raised, denovo_vars, aside_vars>>

\* the records of a trio: each names one or two genes, a record spanning two
\* genes is a CNV
TrioRecords(n) ==
    {[i \in 1..n |-> Record(i, i, gl[i], Len(gl[i]) = 2, "autosomal",
                            [g \in AllSymbols |-> "lof"])] :
        gl \in [1..n -> DistinctSeqs(Genes, 1, 2)]}

Init ==
    /\ pc = "start"
    /\ variants \in UNION {TrioRecords(n) : n \in 0..MaxTrio}
    /\ known_genes \in Panels
    /\ genes_dict = <<>>
    /\ todo = 1
    /\ call = NoCall
    /\ found_vars = <<>>
    /\ arg_before = <<>>
    /\ unique_vars = <<>>
    /\ raised = "none"
    /\ log = <<>>
    /\ DeNovoIdle
    /\ AsideIdle

Next ==
    \/ CreateGeneDict
    \/ FindVariantsRaises
    \/ FindVariantsEmpty
    \/ FindVariantsClassify
    \/ ExcludeDuplicates
    \/ FilterVariants

Spec == Init /\ [][Next]_vars

---------------------------------------------------------------------------
(* TrioGenotypes, trio_genotypes.py:94-176 *)

\* a genotype call, and the "NA" reported for a parent that is not attached
Geno(n) == [na |-> FALSE, genotype |-> n]

NA == [na |-> TRUE, genotype |-> 0]

Unattached == [attached |-> FALSE, genotype |-> 0]

Attached(n) == [attached |-> TRUE, genotype |-> n]

\* lines 103-116 with an absent parent reported as genotype 0 (reference)
get_trio_genotype_absentIsRef(t) ==
    <<Geno(t.child), Geno(t.mother.genotype), Geno(t.father.genotype)>>

\* lines 103-116: hasattr(self, "mother") / hasattr(self, "father")
get_trio_genotype(t) ==
    <<Geno(t.child),
      IF t.mother.attached THEN Geno(t.mother.genotype) ELSE NA,
      IF t.father.attached THEN Geno(t.father.genotype) ELSE NA>>

\* lines 118-129 without the branch of lines 126-127
get_de_novo_genotype_noXChrMale(t) == <<Geno(1), Geno(0), Geno(0)>>

\* lines 118-129
get_de_novo_genotype(t) ==
    IF t.inheritance_type = "XChrMale"
    THEN <<Geno(2), Geno(0), Geno(0)>>
    ELSE <<Geno(1), Geno(0), Geno(0)>>

\* float(): the value of a decimal string of the FORMAT column, in tenths
Float(str) ==
    CASE str = "0" -> 0
      [] str = "0.0" -> 0
      [] str = "0.5" -> 5
      [] str = "0.50" -> 5
      [] str = "0.9" -> 9
      [] str = "1" -> 10

\* line 164-165 with `<=` in the place of `<`
FailsPpDnm_orEqual(t, pp) ==
    "PP_DNM" \in DOMAIN t.format /\ Float(t.format["PP_DNM"]) <= pp

\* lines 164-165
FailsPpDnm(t, pp) ==
    "PP_DNM" \in DOMAIN t.format /\ Float(t.format["PP_DNM"]) < pp

\* lines 151-176, the returns in the order of the source
passes_de_novo_checks(t, pp) ==
    IF get_trio_genotype(t) # get_de_novo_genotype(t) THEN TRUE
    ELSE IF Cardinality(t.info \cap {"DENOVO-SNP", "DENOVO-INDEL"}) < 1 THEN FALSE
    ELSE IF FailsPpDnm(t, pp) THEN FALSE
    ELSE IF "TEAM29_FILTER" \in DOMAIN t.format /\ t.format["TEAM29_FILTER"] # "PASS" THEN FALSE
    ELSE TRUE

\* lines 97-98
add_mother_variant(genotype) ==
    /\ pc = "trio"
    /\ trio' = [trio EXCEPT !.mother = Attached(genotype)]
    /\ UNCHANGED <<pc, pp_filter, passes, pipeline_vars, aside_vars>>

\* lines 94-95
add_father_variant(genotype) ==
    /\ pc = "trio"
    /\ trio' = [trio EXCEPT !.father = Attached(genotype)]
    /\ UNCHANGED <<pc, pp_filter, passes, pipeline_vars, aside_vars>>

\* a call of passes_de_novo_checks(pp) on the record
PassesDeNovoChecks(pp) ==
    /\ pc = "trio"
    /\ pp_filter' = pp
    /\ passes' = IF passes_de_novo_checks(trio, pp) THEN "True" ELSE "False"
    /\ pc' = "checked"
    /\ UNCHANGED <<trio, pipeline_vars, aside_vars>>

---------------------------------------------------------------------------
(* passes_de_novo_checks on every record within the bounds *)

Genotypes == 0..2

PpStrings == {"0", "0.0", "0.5", "0.50", "0.9", "1"}

\* pp_filter, in tenths: 0.0 (the default of Filter.__init__), 0.5, 0.9, 1.0
Thresholds == {0, 5, 9, 10}

\* child.format: a dict that may or may not hold PP_DNM and TEAM29_FILTER
Formats ==
    UNION {[D -> PpStrings \cup {"PASS", "FAIL"}] : D \in SUBSET {"PP_DNM", "TEAM29_FILTER"}}

ChildFormats ==
    {f \in Formats :
        /\ "PP_DNM" \in DOMAIN f => f["PP_DNM"] \in PpStrings
        /\ "TEAM29_FILTER" \in DOMAIN f => f["TEAM29_FILTER"] \in {"PASS", "FAIL"}}

ChildInfos == SUBSET {"DENOVO-SNP", "DENOVO-INDEL", "HGNC"}

InitDeNovo ==
    /\ pc = "trio"
    /\ trio \in [inheritance_type : InheritanceTypes, child : Genotypes,
                 mother : {Unattached}, father : {Unattached},
                 info : ChildInfos, format : ChildFormats]
    /\ pp_filter = 0
    /\ passes = "unset"
    /\ PipelineIdle
    /\ AsideIdle

NextDeNovo ==
    \/ \E g \in Genotypes : add_mother_variant(g)
    \/ \E g \in Genotypes : add_father_variant(g)
    \/ \E pp \in Thresholds : PassesDeNovoChecks(pp)

SpecDeNovo == InitDeNovo /\ [][NextDeNovo]_vars

---------------------------------------------------------------------------
(* TrioGenotypes.chrom_to_int, __eq__, __ne__, __lt__, trio_genotypes.py:47-78 *)

\* the strings int() accepts among the chromosome labels and positions
IsInt(str) == str \in {"1", "22", "5", "05", "10"}

\* int() of a decimal string
int(str) ==
    CASE str = "1" -> 1
      [] str = "22" -> 22
      [] str = "5" -> 5
      [] str = "05" -> 5
      [] str = "10" -> 10

\* str.upper()
upper(str) ==
    CASE str = "x" -> "X"
      [] str = "chrX" -> "CHRX"
      [] str = "chrMT" -> "CHRMT"
      [] str = "chr1" -> "CHR1"
      [] OTHER -> str

\* line 58
chrom_dict ==
    [c \in {"X", "CHRX", "Y", "CHRY", "MT", "CHRMT"} |->
        CASE c \in {"X", "CHRX"} -> 23
          [] c \in {"Y", "CHRY"} -> 24
          [] c \in {"MT", "CHRMT"} -> 25]

\* lines 61-66: int(chrom), on ValueError chrom_dict[chrom.upper()], which
\* raises KeyError for a label that is not a key
chrom_to_int(chrom) ==
    IF IsInt(chrom) THEN [raised |-> "none", value |-> int(chrom)]
    ELSE IF upper(chrom) \in DOMAIN chrom_dict
    THEN [raised |-> "none", value |-> chrom_dict[upper(chrom)]]
    ELSE [raised |-> "KeyError", value |-> 0]

\* the tuple (self.chrom_to_int(self.get_chrom()), int(self.get_position()))
SortKey(r) == <<chrom_to_int(r.chrom).value, int(r.position)>>

\* building either tuple of a comparison raises
KeyRaises(a, b) ==
    chrom_to_int(a.chrom).raised # "none" \/ chrom_to_int(b.chrom).raised # "none"

\* Python's < on two tuples of two integers
TupleLess(k, l) == k[1] < l[1] \/ (k[1] = l[1] /\ k[2] < l[2])

Bool(b) == IF b THEN "True" ELSE "False"

\* lines 68-70
eq(a, b) ==
    IF KeyRaises(a, b) THEN "KeyError" ELSE Bool(SortKey(a) = SortKey(b))

\* lines 72-74
ne(a, b) ==
    IF KeyRaises(a, b) THEN "KeyError" ELSE Bool(SortKey(a) # SortKey(b))

\* lines 76-78
lt(a, b) ==
    IF KeyRaises(a, b) THEN "KeyError" ELSE Bool(TupleLess(SortKey(a), SortKey(b)))

\* this == other
Eq ==
    /\ pc = "compare"
    /\ cmp.eq = "unset"
    /\ cmp' = [cmp EXCEPT !.eq = eq(this, other)]
    /\ UNCHANGED <<pc, this, other, pipeline_vars, denovo_vars, cnv_vars, load_vars>>

\* this != other
Ne ==
    /\ pc = "compare"
    /\ cmp.ne = "unset"
    /\ cmp' = [cmp EXCEPT !.ne = ne(this, other)]
    /\ UNCHANGED <<pc, this, other, pipeline_vars, denovo_vars, cnv_vars, load_vars>>

\* this < other
Lt ==
    /\ pc = "compare"
    /\ cmp.lt = "unset"
    /\ cmp' = [cmp EXCEPT !.lt = lt(this, other)]
    /\ UNCHANGED <<pc, this, other, pipeline_vars, denovo_vars, cnv_vars, load_vars>>

\* other < this
Gt ==
    /\ pc = "compare"
    /\ cmp.gt = "unset"
    /\ cmp' = [cmp EXCEPT !.gt = lt(other, this)]
    /\ UNCHANGED <<pc, this, other, pipeline_vars, denovo_vars, cnv_vars, load_vars>>

\* lines 83-89, "chr{0}: {1} - {2}{3}{4}".format(chrom, position, child,
\* mother, father): the pieces of the string in order; the chromosome and
\* the position go in as the record spells them, and a record without
\* parents reports "NA" for each (lines 106-114)
str(r) == <<"chr", r.chrom, ": ", r.position, " - ", r.child, "NA", "NA">>

\* hash(this) == hash(other), lines 91-92: hash(self.__repr__()). The hashes
\* of one string are equal; those of two strings differ unless the hash
\* function happens to collide on them
HashEq ==
    /\ pc = "compare"
    /\ cmp.hash_eq = "unset"
    /\ \E collide \in BOOLEAN :
         cmp' = [cmp EXCEPT !.hash_eq = Bool(str(this) = str(other) \/ collide)]
    /\ UNCHANGED <<pc, this, other, pipeline_vars, denovo_vars, cnv_vars, load_vars>>

---------------------------------------------------------------------------
(* the comparisons of every pair of records within the bounds *)

\* chromosome labels of a VCF: numeric, sex and mitochondrial chromosomes,
\* in lower case and with the "chr" prefix
ChromLabels == {"1", "22", "chr1", "X", "x", "chrX", "Y", "MT", "chrMT"}

\* positions as the strings of the POS column
Positions == {"5", "05", "10"}

\* a record: its locus, and fields the comparisons do not read
OrderRecords ==
    [chrom : ChromLabels, position : Positions, child : {0, 1}, cnv : BOOLEAN]

InitOrder ==
    /\ pc = "compare"
    /\ this \in OrderRecords
    /\ other \in OrderRecords
    /\ cmp = NoComparison
    /\ PipelineIdle
    /\ DeNovoIdle
    /\ CnvIdle
    /\ LoadIdle

NextOrder == Eq \/ Ne \/ Lt \/ Gt \/ HashEq

SpecOrder == InitOrder /\ [][NextOrder]_vars

---------------------------------------------------------------------------
(* CNVInheritance (clinicalfilter/inheritance.py), as the specification      *)
(* describes it and tests/test_cnv_inheritance.py exercises it              *)

\* the number of positions two intervals share
OverlapOf(start, end, region_start, region_end) ==
    LET from == IF start > region_start THEN start ELSE region_start
        to == IF end < region_end THEN end ELSE region_end
    IN  IF to > from THEN to - from ELSE 0

\* has_enough_overlap(start, end, region_start, region_end): the CNV covers
\* at least half of the region
has_enough_overlap(start, end, region_start, region_end) ==
    2 * OverlapOf(start, end, region_start, region_end) >= region_end - region_start

\* the copy numbers a mode of inheritance accepts
CopyNumbers(mode) ==
    CASE mode = "Monoallelic" -> {"0", "1", "3"}
      [] mode = "Biallelic" -> {"0"}

\* the mechanisms a mode of inheritance accepts
Mechanisms(mode) ==
    CASE mode = "Monoallelic" ->
            {"Uncertain", "Loss of function", "Dominant negative", "Increased gene dosage"}
      [] mode = "Biallelic" -> {"Uncertain", "Loss of function", "Dominant negative"}

\* the CNV starts before the gene and ends after it
Surrounds(o, v) == v.position < o.known_gene.start /\ v.end > o.known_gene.end

\* the disruptive-duplication exclusion: a duplication around a gene whose
\* only mechanism under Monoallelic is loss of function
DisruptiveDup(o, v, mode) ==
    /\ mode = "Monoallelic"
    /\ v.genotype = "DUP"
    /\ o.known_gene.inh[mode] = {"Loss of function"}
    /\ Surrounds(o, v)

\* passes_gene_inheritance(variant, inh)
passes_gene_inheritance(o, v, mode) ==
    /\ mode \in {"Monoallelic", "Biallelic"}
    /\ v.CNS \in CopyNumbers(mode)
    /\ o.known_gene.inh[mode] \cap Mechanisms(mode) # {}
    /\ ~DisruptiveDup(o, v, mode)

\* the annotations that report a CNV as inherited from both parents
Biparental == {"biparental", "inheritedDuo"}

IsBiparental(v) == {v.INHERITANCE, v.CIFER_INHERITANCE} \cap Biparental # {}

\* Person.is_affected(): status "2" of the pedigree
is_affected(status) == status = "2"

\* inheritance_matches_parental_affected_status(variant), for a CNV that an
\* annotation reports as biparentally inherited
inheritance_matches_parental_affected_status(o, v) ==
    \/ is_affected(o.father_status)
    \/ is_affected(o.mother_status)
    \/ v.CNS = "0"

\* self.inh.has_enough_overlap(cnv_start, cnv_end, region_start, region_end)
HasEnoughOverlap(start, end, region_start, region_end) ==
    /\ pc = "overlap"
    /\ answer' = [fn |-> "has_enough_overlap",
                  args |-> <<start, end, region_start, region_end>>,
                  value |-> Bool(has_enough_overlap(start, end, region_start, region_end))]
    /\ UNCHANGED <<pc, classifier, cnv_record, pipeline_vars, denovo_vars, order_vars, load_vars>>

\* self.inh.passes_gene_inheritance(cnv, inh)
PassesGeneInheritance(mode) ==
    /\ pc = "cnv"
    /\ answer' = [fn |-> "passes_gene_inheritance", args |-> <<mode>>,
                  value |-> Bool(passes_gene_inheritance(classifier, cnv_record, mode))]
    /\ UNCHANGED <<pc, classifier, cnv_record, pipeline_vars, denovo_vars, order_vars, load_vars>>

\* self.inh.inheritance_matches_parental_affected_status(cnv)
InheritanceMatchesParentalAffectedStatus ==
    /\ pc = "cnv"
    /\ IsBiparental(cnv_record)
    /\ answer' = [fn |-> "inheritance_matches_parental_affected_status", args |-> <<>>,
                  value |-> Bool(inheritance_matches_parental_affected_status(classifier, cnv_record))]
    /\ UNCHANGED <<pc, classifier, cnv_record, pipeline_vars, denovo_vars, order_vars, load_vars>>

---------------------------------------------------------------------------
(* the assertions of tests/test_cnv_inheritance.py: the call and the value  *)
(* the test expects                                                         *)

\* lines 477-505 with assertTrue at line 496
test_has_enough_overlap_shorterInterval ==
    <<[args |-> <<1000, 2000, 1000, 2000>>, expected |-> "True"],
      [args |-> <<1000, 1500, 1000, 2000>>, expected |-> "True"],
      [args |-> <<1000, 1499, 1000, 2000>>, expected |-> "True"],
      [args |-> <<1000, 2000, 1000, 1010>>, expected |-> "True"],
      [args |-> <<1000, 2000, 1000, 1001>>, expected |-> "True"]>>

\* lines 477-505
test_has_enough_overlap ==
    <<[args |-> <<1000, 2000, 1000, 2000>>, expected |-> "True"],
      [args |-> <<1000, 1500, 1000, 2000>>, expected |-> "True"],
      [args |-> <<1000, 1499, 1000, 2000>>, expected |-> "False"],
      [args |-> <<1000, 2000, 1000, 1010>>, expected |-> "True"],
      [args |-> <<1000, 2000, 1000, 1001>>, expected |-> "True"]>>

GeneCase(mode, mechanisms, genotype, CNS, expected) ==
    [mode |-> mode, mechanisms |-> mechanisms, genotype |-> genotype,
     CNS |-> CNS, expected |-> expected]

\* lines 197-231 with assertTrue at line 212
test_passes_gene_inheritance_activatingPasses ==
    <<GeneCase("Monoallelic", {"Increased gene dosage"}, "DUP", "3", "True"),
      GeneCase("Monoallelic", {"Activating"}, "DUP", "3", "True"),
      GeneCase("Monoallelic", {"Loss of function"}, "DEL", "0", "True"),
      GeneCase("Monoallelic", {"Increased gene dosage"}, "DEL", "0", "True"),
      GeneCase("Monoallelic", {"Uncertain"}, "DEL", "0", "True"),
      GeneCase("Monoallelic", {"Uncertain"}, "DEL", "1", "True")>>

\* lines 197-231
test_passes_gene_inheritance ==
    <<GeneCase("Monoallelic", {"Increased gene dosage"}, "DUP", "3", "True"),
      GeneCase("Monoallelic", {"Activating"}, "DUP", "3", "False"),
      GeneCase("Monoallelic", {"Loss of function"}, "DEL", "0", "True"),
      GeneCase("Monoallelic", {"Increased gene dosage"}, "DEL", "0", "True"),
      GeneCase("Monoallelic", {"Uncertain"}, "DEL", "0", "True"),
      GeneCase("Monoallelic", {"Uncertain"}, "DEL", "1", "True")>>

DupCase(genotype, CNS, position, end, expected) ==
    [mode |-> "Monoallelic", mechanisms |-> {"Loss of function"},
     genotype |-> genotype, CNS |-> CNS, position |-> position, end |-> end,
     expected |-> expected]

\* lines 359-392 with assertTrue at line 381
test_passes_gene_inheritance_surrounding_disruptive_dup_passes ==
    <<DupCase("DUP", "1", 4000, 7000, "True"),
      DupCase("DUP", "1", 5500, 7000, "True"),
      DupCase("DEL", "1", 4000, 7000, "True")>>

\* lines 359-392
test_passes_gene_inheritance_surrounding_disruptive_dup ==
    <<DupCase("DUP", "1", 4000, 7000, "False"),
      DupCase("DUP", "1", 5500, 7000, "True"),
      DupCase("DEL", "1", 4000, 7000, "True")>>

StatusCase(INHERITANCE, CIFER_INHERITANCE, CNS, father, mother, expected) ==
    [INHERITANCE |-> INHERITANCE, CIFER_INHERITANCE |-> CIFER_INHERITANCE,
     CNS |-> CNS, father_status |-> father, mother_status |-> mother,
     expected |-> expected]

\* lines 126-151; line 149 sets father.affected_status, which leaves
\* father.status at "2"
test_inheritance_matches_parental_affected_status_biparental ==
    <<StatusCase("unknown", "biparental", "3", "1", "1", "False"),
      StatusCase("unknown", "biparental", "3", "2", "1", "True"),
      StatusCase("unknown", "biparental", "3", "1", "2", "True"),
      StatusCase("inheritedDuo", "unknown", "3", "1", "1", "False"),
      StatusCase("inheritedDuo", "unknown", "3", "2", "1", "True"),
      StatusCase("inheritedDuo", "unknown", "3", "2", "2", "True")>>

\* lines 153-165 with assertFalse at line 165
test_inheritance_matches_parental_affected_status_biparental_copy_zero_fails ==
    <<StatusCase("unknown", "biparental", "0", "1", "1", "False")>>

\* lines 153-165: both parents have status "1" from setUp (lines 39-43)
test_inheritance_matches_parental_affected_status_biparental_copy_zero ==
    <<StatusCase("unknown", "biparental", "0", "1", "1", "True")>>

---------------------------------------------------------------------------
(* has_enough_overlap on the intervals of test_has_enough_overlap *)

\* the interval ends test_has_enough_overlap uses
Ends == {1000, 1001, 1010, 1499, 1500, 2000}

Intervals == {i \in Ends \X Ends : i[1] < i[2]}

InitOverlap ==
    /\ pc = "overlap"
    /\ PipelineIdle
    /\ DeNovoIdle
    /\ AsideIdle

NextOverlap ==
    \E i, r \in Intervals : HasEnoughOverlap(i[1], i[2], r[1], r[2])

SpecOverlap == InitOverlap /\ [][NextOverlap]_vars

---------------------------------------------------------------------------
(* the CNVInheritance methods on the fixtures of test_cnv_inheritance.py *)

\* a gene with one mechanism under a mode of inheritance
MechanismSets ==
    {{"Loss of function"}, {"Increased gene dosage"}, {"Activating"}, {"Uncertain"}}

\* setUp, lines 38-53: the gene spans 5000-6000; statuses "1" unaffected, "2" affected
Classifiers ==
    [known_gene : [inh : [{"Monoallelic", "Biallelic"} -> MechanismSets],
                   start : {5000}, end : {6000}],
     mother_status : {"1", "2"}, father_status : {"1", "2"}]

\* create_variant, lines 55-69, with the fields the tests set afterwards
Cnvs ==
    {v \in [genotype : {"DUP", "DEL"}, CNS : {"0", "1", "3"},
            position : {4000, 5500}, end : {7000},
            INHERITANCE : {"unknown", "inheritedDuo"},
            CIFER_INHERITANCE : {"unknown", "biparental"}] : IsBiparental(v)}

GeneModes == {"Monoallelic", "Biallelic", "Mosaic"}

InitCNV ==
    /\ pc = "cnv"
    /\ classifier \in Classifiers
    /\ cnv_record \in Cnvs
    /\ answer = NoAnswer
    /\ PipelineIdle
    /\ DeNovoIdle
    /\ OrderIdle
    /\ LoadIdle

NextCNV ==
    \/ \E mode \in GeneModes : PassesGeneInheritance(mode)
    \/ InheritanceMatchesParentalAffectedStatus

SpecCNV == InitCNV /\ [][NextCNV]_vars

---------------------------------------------------------------------------
(* Filter.__init__, filter.py:63-71, and the loaders of load_files.py *)

\* the loaders __init__ calls, in the order of lines 69-71
NextLoader(loader) ==
    CASE loader = "open_known_genes" -> "create_person_ID_mapper"
      [] loader = "create_person_ID_mapper" -> "open_cnv_regions"
      [] loader = "open_cnv_regions" -> "constructed"

Loaders == {"open_known_genes", "create_person_ID_mapper", "open_cnv_regions"}

\* the path argument of the loader call
PathOf(loader) ==
    CASE loader = "open_known_genes" -> paths.known_genes
      [] loader = "create_person_ID_mapper" -> paths.alternate_ids
      [] loader = "open_cnv_regions" -> paths.regions

\* open_file, lines 27-29: io.open(None, ...) raises TypeError, which the
\* except clause of line 30 does not catch
OpenFile_TypeError ==
    /\ pc \in Loaders
    /\ retry < 5
    /\ PathOf(pc) = None
    /\ init_raised' = [exception |-> "TypeError", in |-> pc]
    /\ pc' = "init raised"
    /\ UNCHANGED <<paths, disk, retry, self_filter, pipeline_vars, denovo_vars,
                   order_vars, cnv_vars>>

\* open_file, lines 27-34: io.open raises PermissionError, sleep, retry += 1
OpenFile_PermissionError ==
    /\ pc \in Loaders
    /\ retry < 5
    /\ PathOf(pc) # None
    /\ disk.blocked > 0
    /\ disk' = [disk EXCEPT !.blocked = @ - 1]
    /\ retry' = retry + 1
    /\ UNCHANGED <<pc, paths, self_filter, init_raised, pipeline_vars, denovo_vars,
                   order_vars, cnv_vars>>

\* OpenFile_IOError with the loop left after four attempts
OpenFile_IOError_afterFour ==
    /\ pc \in Loaders
    /\ retry >= 4
    /\ init_raised' = [exception |-> "IOError", in |-> pc]
    /\ pc' = "init raised"
    /\ UNCHANGED <<paths, disk, retry, self_filter, pipeline_vars, denovo_vars,
                   order_vars, cnv_vars>>

\* open_file, lines 27 and 36-38: the loop ends, IOError
OpenFile_IOError ==
    /\ pc \in Loaders
    /\ retry >= 5
    /\ init_raised' = [exception |-> "IOError", in |-> pc]
    /\ pc' = "init raised"
    /\ UNCHANGED <<paths, disk, retry, self_filter, pipeline_vars, denovo_vars,
                   order_vars, cnv_vars>>

\* line 29: io.open returns the file
Opens(loader) ==
    /\ pc = loader
    /\ retry < 5
    /\ PathOf(loader) # None
    /\ disk.blocked = 0

\* line 93
allowed_confirmed_statuses == {"Confirmed DD Gene", "Probable DD gene", "Both DD and IF"}

\* d[key].add(value) on a dict of sets, after `if key not in d: d[key] = set()`
AddTo(d, key, value) ==
    [k \in DOMAIN d \cup {key} |->
        IF k = key THEN (IF k \in DOMAIN d THEN d[k] ELSE {}) \cup {value} ELSE d[k]]

EmptyDict == [k \in {} |-> {}]

\* AddLine without the expansion of the mode "Both" (lines 120-126)
AddLine_bothAsListed(known_genes_, line) ==
    IF line.status \notin allowed_confirmed_statuses THEN known_genes_
    ELSE
        LET old == IF line.gene \in DOMAIN known_genes_
                   THEN known_genes_[line.gene]
                   ELSE [inheritance |-> EmptyDict, confirmed_status |-> {}]
            entry == [inheritance |-> AddTo(old.inheritance, line.mode, line.mech),
                      confirmed_status |-> old.confirmed_status \cup {line.status},
                      start |-> line.start, end |-> line.stop, chrom |-> line.chr]
        IN  [g \in DOMAIN known_genes_ \cup {line.gene} |->
                IF g = line.gene THEN entry ELSE known_genes_[g]]

\* lines 97-126, one line of the file
AddLine(known_genes_, line) ==
    IF line.status \notin allowed_confirmed_statuses THEN known_genes_
    ELSE
        LET old == IF line.gene \in DOMAIN known_genes_
                   THEN known_genes_[line.gene]
                   ELSE [inheritance |-> EmptyDict, confirmed_status |-> {}]
            inh1 == AddTo(old.inheritance, line.mode, line.mech)
            inh2 == IF line.mode = "Both"
                    THEN AddTo(AddTo(inh1, "Monoallelic", line.mech), "Biallelic", line.mech)
                    ELSE inh1
            entry == [inheritance |-> inh2,
                      confirmed_status |-> old.confirmed_status \cup {line.status},
                      start |-> line.start, end |-> line.stop, chrom |-> line.chr]
        IN  [g \in DOMAIN known_genes_ \cup {line.gene} |->
                IF g = line.gene THEN entry ELSE known_genes_[g]]

\* lines 96-126: for line in f
RECURSIVE AddLines(_, _, _)
AddLines(known_genes_, lines, i) ==
    IF i > Len(lines) THEN known_genes_
    ELSE AddLines(AddLine(known_genes_, lines[i]), lines, i + 1)

\* open_known_genes after open_file, lines 69-133: the exception it raises
\* and the dict it returns
open_known_genes(header, lines) ==
    IF header = "DDG2P_Status"
    THEN [raised |-> "UnboundLocalError", value |-> EmptyDict]
    ELSE IF header # "type"
    THEN [raised |-> "ValueError", value |-> EmptyDict]
    ELSE IF DOMAIN AddLines(EmptyDict, lines, 1) = {}
    THEN [raised |-> "ValueError", value |-> EmptyDict]
    ELSE [raised |-> "none", value |-> AddLines(EmptyDict, lines, 1)]

\* open_cnv_regions after open_file, lines 275-291
open_cnv_regions(lines) ==
    [key \in {<<l.chrom, l.start, l.end>> : l \in Range(lines)} |->
        (CHOOSE i \in 1..Len(lines) :
            /\ <<lines[i].chrom, lines[i].start, lines[i].end>> = key
            /\ \A j \in (i + 1)..Len(lines) :
                   <<lines[j].chrom, lines[j].start, lines[j].end>> # key)
        ]

\* a value assigned to an attribute of self
Assigned(value) == [set |-> TRUE, value |-> value]

\* filter.py:69, self.known_genes = open_known_genes(known_genes), once the
\* file is open
OpenKnownGenes ==
    /\ Opens("open_known_genes")
    /\ LET out == open_known_genes(disk.header, disk.genes)
       IN  IF out.raised # "none"
           THEN /\ init_raised' = [exception |-> out.raised, in |-> pc]
                /\ pc' = "init raised"
                /\ UNCHANGED self_filter
           ELSE /\ self_filter' = [self_filter EXCEPT !.known_genes = Assigned(out.value)]
                /\ pc' = NextLoader(pc)
                /\ UNCHANGED init_raised
    /\ retry' = 0
    /\ UNCHANGED <<paths, disk, pipeline_vars, denovo_vars, order_vars, cnv_vars>>

\* filter.py:70, self.id_mapper = create_person_ID_mapper(alternate_ids)
CreatePersonIDMapper ==
    /\ Opens("create_person_ID_mapper")
    /\ self_filter' = [self_filter EXCEPT !.id_mapper = Assigned(EmptyDict)]
    /\ pc' = NextLoader(pc)
    /\ retry' = 0
    /\ UNCHANGED <<paths, disk, init_raised, pipeline_vars, denovo_vars, order_vars, cnv_vars>>

\* filter.py:71, self.cnv_regions = open_cnv_regions(regions)
OpenCnvRegions ==
    /\ Opens("open_cnv_regions")
    /\ self_filter' = [self_filter EXCEPT !.cnv_regions = Assigned(open_cnv_regions(disk.regions))]
    /\ pc' = NextLoader(pc)
    /\ retry' = 0
    /\ UNCHANGED <<paths, disk, init_raised, pipeline_vars, denovo_vars, order_vars, cnv_vars>>

---------------------------------------------------------------------------
(* Filter.__init__ on every combination of paths and files within the bounds *)

\* the PermissionErrors the file system raises before it lets a file open
MaxBlocked == 6
\* the lines of the gene table below its header
MaxLines == 2

GeneLines ==
    [gene : {"g1"}, status : {"Confirmed DD Gene", "Possible DD gene"},
     mode : {"Monoallelic", "Both"}, mech : {"Loss of function", "Activating"},
     start : {"5000"}, stop : {"6000"}, chr : {"1"}]

RegionLines == {[chrom |-> "1", start |-> "1000", end |-> "2000", copy_number |-> "1"]}

InitLoad ==
    /\ pc = "open_known_genes"
    /\ paths \in [known_genes : {None, "genes.txt"}, alternate_ids : {None, "ids.txt"},
                  regions : {None, "regions.txt"}]
    /\ disk \in [blocked : 0..MaxBlocked, header : {"DDG2P_Status", "type", "other"},
                 genes : SeqsUpTo(GeneLines, MaxLines), regions : SeqsUpTo(RegionLines, 1)]
    /\ retry = 0
    /\ self_filter = NotConstructed
    /\ init_raised = NotRaised
    /\ PipelineIdle
    /\ DeNovoIdle
    /\ OrderIdle
    /\ CnvIdle

NextLoad ==
    \/ OpenFile_TypeError
    \/ OpenFile_PermissionError
    \/ OpenFile_IOError
    \/ OpenKnownGenes
    \/ CreatePersonIDMapper
    \/ OpenCnvRegions

SpecLoad == InitLoad /\ [][NextLoad]_vars

---------------------------------------------------------------------------
(* Claims about create_gene_dict (SpecGeneDict) *)

\* the records of the input that name gene g, in input order
Naming(vs, g) == SelectSeq(vs, LAMBDA var : InList(g, get_genes(var)))

\* C1: after create_gene_dict, for every gene symbol g the bucket of g is
\* exactly the subsequence of the input records whose get_genes() contains g,
\* in input order (so a record with k genes is in all k buckets, as the same
\* record), there is one bucket per symbol and none for a symbol that no
\* record names.
C1_BucketsAreSubsequences ==
    pc # "start" =>
        /\ \A i, j \in 1..Len(genes_dict) : genes_dict[i].key = genes_dict[j].key => i = j
        /\ \A g \in AllSymbols :
             IF Naming(variants, g) = <<>>
             THEN ~HasKey(genes_dict, g)
             ELSE HasKey(genes_dict, g) /\ Get(genes_dict, g) = Naming(variants, g)

\* a record with two genes sits in two buckets, one of them shared with an
\* earlier record
C1_Witness ==
    /\ pc # "start"
    /\ Len(variants) = 3
    /\ Len(get_genes(variants[2])) = 2
    /\ \E g \in Genes : HasKey(genes_dict, g) /\ Len(Get(genes_dict, g)) = 3
    /\ \E g \in Genes : HasKey(genes_dict, g) /\ Get(genes_dict, g) = <<variants[2]>>

---------------------------------------------------------------------------
(* Claims about exclude_duplicates (SpecMerge) *)

Merged == pc \in {"merged", "merged twice"}

KeyAt(vs, i) == get_key(vs[i][1])

\* the positions of the input at which a key occurs for the first time
FirstPositions(vs) ==
    {i \in 1..Len(vs) : \A j \in 1..(i - 1) : KeyAt(vs, j) # KeyAt(vs, i)}

\* the k-th of them
NthFirst(vs, k) ==
    CHOOSE i \in FirstPositions(vs) :
        Cardinality({j \in FirstPositions(vs) : j <= i}) = k

\* the positions of the input that carry key
PositionsOf(vs, key) == {i \in 1..Len(vs) : KeyAt(vs, i) = key}

\* C2: exclude_duplicates returns exactly one candidate per distinct record
\* key of its input, in the order in which the keys first occur, and each
\* output candidate carries the record of the first input candidate with
\* its key.
C2_OnePerKeyInFirstOrder ==
    Merged =>
        /\ Len(unique_vars) = Cardinality(FirstPositions(arg_before))
        /\ \A k \in 1..Len(unique_vars) :
             unique_vars[k][1] = arg_before[NthFirst(arg_before, k)][1]

\* keys interleaved: the third candidate repeats the first one's key with a
\* different record
C2_Witness ==
    /\ pc = "merged"
    /\ Len(arg_before) = 3
    /\ KeyAt(arg_before, 1) = KeyAt(arg_before, 3)
    /\ KeyAt(arg_before, 1) # KeyAt(arg_before, 2)
    /\ arg_before[1][1] # arg_before[3][1]
    /\ Len(unique_vars) = 2

\* the elements of field f over the input candidates at positions I
FieldUnion(vs, I, f) == UNION {Range(vs[i][f]) : i \in I}

RECURSIVE Flatten(_, _, _, _)
\* field f of the input candidates carrying key, concatenated in input order
Flatten(vs, key, f, i) ==
    IF i > Len(vs) THEN <<>>
    ELSE (IF KeyAt(vs, i) = key THEN vs[i][f] ELSE <<>>) \o Flatten(vs, key, f, i + 1)

\* s without the later repetitions of its elements
FirstSeen(s) == SubSeqAt(s, {p \in 1..Len(s) : \A q \in 1..(p - 1) : s[q] # s[p]})

\* C3: the candidate output for a key has check types, inheritance tags and
\* gene symbols equal, as sets, to the union of those fields over all input
\* candidates with that key, and lists its gene symbols in the order in
\* which the input first shows them.
C3_FieldsAreUnions ==
    Merged =>
        \A k \in 1..Len(unique_vars) :
            LET key == get_key(unique_vars[k][1])
                I == PositionsOf(arg_before, key)
            IN /\ \A f \in 2..4 : Range(unique_vars[k][f]) = FieldUnion(arg_before, I, f)
               /\ unique_vars[k][4] = FirstSeen(Flatten(arg_before, key, 4, 1))

\* three candidates of one key, the second bringing the symbols g2, g1 to
\* an entry that holds g1
C3_Witness ==
    /\ pc = "merged"
    /\ Len(arg_before) = 3
    /\ Len(unique_vars) = 1
    /\ arg_before[1][4] = <<"g1">>
    /\ arg_before[2][4] = <<"g2", "g1">>
    /\ arg_before[1][2] # arg_before[3][2]
    /\ unique_vars[1][4] = <<"g1", "g2">>
    /\ Len(unique_vars[1][2]) = 2

\* the candidates this model hands to exclude_duplicates repeat nothing in
\* their own lists (find_variants builds them with list(set) and [gene])
WellFormed(vs) == \A i \in 1..Len(vs) : \A f \in 2..4 : NoRepeats(vs[i][f])

\* C4: no candidate returned by exclude_duplicates repeats an element in
\* its check types, its inheritance tags or its gene symbols.
C4_NoRepeatedTags ==
    Merged => \A k \in 1..Len(unique_vars) : \A f \in 2..4 : NoRepeats(unique_vars[k][f])

\* a later candidate of the same key brings one known and one new element
\* in every field
C4_Witness ==
    /\ pc = "merged"
    /\ WellFormed(arg_before)
    /\ \E i, j \in 1..Len(arg_before) :
         /\ i < j
         /\ KeyAt(arg_before, i) = KeyAt(arg_before, j)
         /\ \A f \in 2..4 :
              /\ Range(arg_before[i][f]) \cap Range(arg_before[j][f]) # {}
              /\ Range(arg_before[j][f]) \ Range(arg_before[i][f]) # {}

\* C5: exclude_duplicates applied to its own output returns the same
\* candidates in the same order with the same check types, inheritance tags
\* and gene symbols.
C5_Idempotent == pc = "merged twice" => unique_vars = arg_before

\* the second call ran on a merged list of two keys
C5_Witness ==
    /\ pc = "merged twice"
    /\ Len(unique_vars) = 2
    /\ \E k \in 1..2 : Len(unique_vars[k][4]) = 2 /\ Len(unique_vars[k][2]) = 2

---------------------------------------------------------------------------
(* Claims about find_variants (SpecFind) *)

Called == pc \in {"merge", "raised"}

OutsidePanel == ~known_genes.is_none /\ call.gene \notin known_genes.genes

\* the records of the returned candidates
ReturnedRecords == {call.returned[i][1] : i \in 1..Len(call.returned)}

\* C6: in every call of find_variants that gets to the panel step (lines
\* 177-178): when a panel is configured and the gene is not in it, no non-CNV
\* record of the bucket reaches a classifier or the returned candidates and
\* the bucket's CNV records are all kept by the step; when no panel is
\* configured or the gene is in the panel, the step drops no record.
C6_PanelStepKeepsOnlyCnvs ==
    (Called /\ call.raised # "KeyError") =>
        IF OutsidePanel
        THEN /\ \A var \in Range(call.finder_vars) \cup ReturnedRecords : is_cnv(var)
             /\ call.kept = SelectSeq(call.bucket, is_cnv)
        ELSE call.kept = call.bucket

\* outside the panel, a functional SNV was dropped and a functional CNV
\* went on to a classifier and came back as a candidate
C6_Witness ==
    /\ Called
    /\ OutsidePanel
    /\ \E var \in Range(call.bucket) : ~is_cnv(var) /\ is_lof(var, call.gene)
    /\ call.finder = "Allosomal"
    /\ Len(call.finder_vars) = 1
    /\ Len(call.returned) = 1

\* the bucket holds a record of a functional category for the gene
SomeFunctional ==
    \E var \in Range(call.bucket) : is_lof(var, call.gene) \/ is_missense(var, call.gene)

\* C7 (as claimed): every record handed to a classifier for gene g satisfies
\* is_lof(g) or is_missense(g), and when no record of the bucket does,
\* find_variants returns an empty list without constructing a classifier.
C7_FunctionalGate ==
    Called =>
        /\ \A var \in Range(call.finder_vars) :
             is_lof(var, call.gene) \/ is_missense(var, call.gene)
        /\ ~SomeFunctional =>
             /\ call.raised = "none"
             /\ call.finder = "none"
             /\ call.returned = <<>>

AutosomalTypes == {"autosomal"}

AllosomalTypes == {"XChrMale", "XChrFemale", "YChrMale"}

\* C8 (as claimed): the records handed to one classifier share a single
\* inheritance category; the Autosomal classifier receives autosomal records
\* only, the Allosomal classifier XChrMale, XChrFemale or YChrMale records
\* only.
C8_UniformCategory ==
    Called =>
        /\ \A v, w \in Range(call.finder_vars) :
             get_inheritance_type(v) = get_inheritance_type(w)
        /\ call.finder = "Autosomal" =>
             \A v \in Range(call.finder_vars) : get_inheritance_type(v) \in AutosomalTypes
        /\ call.finder = "Allosomal" =>
             \A v \in Range(call.finder_vars) : get_inheritance_type(v) \in AllosomalTypes

\* C9 (as claimed): find_variants never raises; every gene bucket yields a
\* (possibly empty) list of candidates.
C9_NeverRaises == raised = "none" /\ pc # "raised"

---------------------------------------------------------------------------
(* Claims about passes_de_novo_checks (SpecDeNovo) *)

HasDeNovoFlag == "DENOVO-SNP" \in trio.info \/ "DENOVO-INDEL" \in trio.info

PpDnmMeets ==
    "PP_DNM" \notin DOMAIN trio.format \/ Float(trio.format["PP_DNM"]) >= pp_filter

Team29Passes ==
    "TEAM29_FILTER" \notin DOMAIN trio.format \/ trio.format["TEAM29_FILTER"] = "PASS"

IsDeNovoPattern == get_trio_genotype(trio) = get_de_novo_genotype(trio)

\* C10: passes_de_novo_checks(pp_filter) returns true exactly when the trio
\* genotype differs from the expected de novo genotype, or the child's INFO
\* holds DENOVO-SNP or DENOVO-INDEL, PP_DNM is absent from FORMAT or at least
\* pp_filter, and TEAM29_FILTER is absent or PASS.
C10_DeNovoGate ==
    pc = "checked" =>
        (passes = "True" <=>
            (~IsDeNovoPattern \/ (HasDeNovoFlag /\ PpDnmMeets /\ Team29Passes)))

\* a de novo record whose PP_DNM equals a non-zero threshold passed
C10_Witness ==
    /\ pc = "checked"
    /\ IsDeNovoPattern
    /\ "PP_DNM" \in DOMAIN trio.format
    /\ Float(trio.format["PP_DNM"]) = pp_filter
    /\ pp_filter = 5
    /\ "TEAM29_FILTER" \in DOMAIN trio.format
    /\ passes = "True"

\* the trio genotype (child, mother, father) of the record, both parents attached
TrioIs(c, m, f) == get_trio_genotype(trio) = <<Geno(c), Geno(m), Geno(f)>>

\* C11: the expected de novo genotype is (1,0,0) for an autosomal record and
\* (2,0,0) for an XChrMale record, and an XChrMale record whose trio genotype
\* is (1,0,0) passes passes_de_novo_checks whatever its annotations are (the
\* de novo gate is not applied to it).
C11_ExpectedDeNovoGenotype ==
    /\ trio.inheritance_type = "autosomal" =>
           get_de_novo_genotype(trio) = <<Geno(1), Geno(0), Geno(0)>>
    /\ trio.inheritance_type = "XChrMale" =>
           /\ get_de_novo_genotype(trio) = <<Geno(2), Geno(0), Geno(0)>>
           /\ pc = "checked" /\ TrioIs(1, 0, 0) => passes = "True"

\* an XChrMale record with trio genotype (1,0,0) and no DENOVO flag passed
C11_Witness ==
    /\ pc = "checked"
    /\ trio.inheritance_type = "XChrMale"
    /\ TrioIs(1, 0, 0)
    /\ ~HasDeNovoFlag
    /\ passes = "True"

\* C12: for a YChrMale record the expected de novo genotype is (2,0,0): a
\* YChrMale record with trio genotype (2,0,0) is gated (it fails without a
\* DENOVO flag) and one with trio genotype (1,0,0) is not gated (it passes).
C12_YChrMaleExpectsHomAlt ==
    trio.inheritance_type = "YChrMale" =>
        /\ get_de_novo_genotype(trio) = <<Geno(2), Geno(0), Geno(0)>>
        /\ pc = "checked" /\ TrioIs(2, 0, 0) /\ ~HasDeNovoFlag => passes = "False"
        /\ pc = "checked" /\ TrioIs(1, 0, 0) => passes = "True"

---------------------------------------------------------------------------
(* Claims about the ordering of records (SpecOrder) *)

Compared == cmp.eq # "unset" /\ cmp.ne # "unset" /\ cmp.lt # "unset" /\ cmp.gt # "unset"

\* how many of this < other, this == other, other < this gave True
TrueAmong == Cardinality({f \in {"lt", "eq", "gt"} : cmp[f] = "True"})

\* C13: two records compare equal exactly when their keys
\* (chrom_to_int(chromosome), int(position)) are equal, != gives the negation
\* of ==, and for every pair exactly one of this < other, this == other,
\* other < this is true; the key alone decides (the genotype and the CNV flag
\* of the records do not).
C13_ComparesByKey ==
    Compared =>
        /\ cmp.eq = Bool(SortKey(this) = SortKey(other))
        /\ cmp.ne = Bool(cmp.eq # "True")
        /\ TrueAmong = 1

\* the chromosome a label names: the label in upper case without its "chr"
ChromosomeOf(label) ==
    CASE label \in {"1", "chr1"} -> "1"
      [] label = "22" -> "22"
      [] label \in {"X", "x", "chrX"} -> "X"
      [] label = "Y" -> "Y"
      [] label \in {"MT", "chrMT"} -> "MT"

\* C14: chrom_to_int gives every numeric chromosome a value below that of X,
\* with X < Y < MT, and gives two labels of one chromosome that differ in case
\* or in a leading "chr" the same value, so that it is defined for every label
\* and every pair of records can be ordered.
C14_ChromOrderTotal ==
    /\ chrom_to_int("X").value < chrom_to_int("Y").value
    /\ chrom_to_int("Y").value < chrom_to_int("MT").value
    /\ \A r \in {this, other} :
        /\ chrom_to_int(r.chrom).raised = "none"
        /\ ChromosomeOf(r.chrom) \in {"1", "22"} =>
               chrom_to_int(r.chrom).value < chrom_to_int("X").value
    /\ ChromosomeOf(this.chrom) = ChromosomeOf(other.chrom) =>
           chrom_to_int(this.chrom) = chrom_to_int(other.chrom)
    /\ \A f \in {"eq", "ne", "lt", "gt"} : cmp[f] \in {"unset", "True", "False"}

---------------------------------------------------------------------------
(* Claims about has_enough_overlap (SpecOverlap) *)

OverlapCalled == answer.fn = "has_enough_overlap"

\* the length of the shorter of the two intervals of the call
ShorterLength ==
    LET cnv_length == answer.args[2] - answer.args[1]
        region_length == answer.args[4] - answer.args[3]
    IN  IF cnv_length < region_length THEN cnv_length ELSE region_length

\* the CNV interval of the call lies inside its region interval
CnvInsideRegion == answer.args[3] <= answer.args[1] /\ answer.args[2] <= answer.args[4]

\* the region interval of the call lies inside its CNV interval
RegionInsideCnv == answer.args[1] <= answer.args[3] /\ answer.args[4] <= answer.args[2]

\* C15 as stated: has_enough_overlap is true exactly when the overlap of the
\* two intervals is at least 50% of the length of the shorter of the two, so
\* that a small CNV wholly inside a large region always qualifies.
C15_HalfOfShorter ==
    OverlapCalled =>
        answer.value =
            Bool(2 * OverlapOf(answer.args[1], answer.args[2], answer.args[3], answer.args[4])
                     >= ShorterLength)

\* C15 amended: has_enough_overlap gives what each assertion of
\* test_has_enough_overlap expects; a region wholly inside the CNV qualifies,
\* and a CNV wholly inside the region qualifies when it spans at least half
\* of the region and does not when it spans less than half of it (whether
\* the end position is counted in the lengths or not).
C15_HalfOfRegion ==
    LET cnv_length == answer.args[2] - answer.args[1]
        region_length == answer.args[4] - answer.args[3]
    IN  OverlapCalled =>
            /\ \A t \in Range(test_has_enough_overlap) :
                   answer.args = t.args => answer.value = t.expected
            /\ RegionInsideCnv => answer.value = "True"
            /\ CnvInsideRegion /\ 2 * cnv_length >= region_length => answer.value = "True"
            /\ CnvInsideRegion /\ 2 * (cnv_length + 1) < region_length + 1 =>
                   answer.value = "False"

\* the CNV 1000-1499 inside the region 1000-2000 was refused
C15_Witness ==
    /\ OverlapCalled
    /\ answer.args = <<1000, 1499, 1000, 2000>>
    /\ answer.value = "False"

---------------------------------------------------------------------------
(* Claims about the CNVInheritance methods (SpecCNV) *)

GeneCalled(mode) == answer.fn = "passes_gene_inheritance" /\ answer.args = <<mode>>

\* the state is the one an assertion of a passes_gene_inheritance test is made in
AtGeneCase(t) ==
    /\ GeneCalled(t.mode)
    /\ classifier.known_gene.inh[t.mode] = t.mechanisms
    /\ cnv_record.genotype = t.genotype
    /\ cnv_record.CNS = t.CNS

DosageMechanisms == {{"Increased gene dosage"}, {"Activating"}}

\* C16 as stated: under Monoallelic, when the only mechanism of the gene is
\* "Increased gene dosage" or "Activating", passes_gene_inheritance accepts
\* exactly the duplications with increased copy number; deletions fail.
C16_DosageNeedsDuplication ==
    GeneCalled("Monoallelic") /\ classifier.known_gene.inh["Monoallelic"] \in DosageMechanisms =>
        answer.value = Bool(cnv_record.genotype = "DUP" /\ cnv_record.CNS = "3")

\* C16 amended: under Monoallelic, when the only mechanism of the gene is
\* "Increased gene dosage", the duplication with copy number 3 and the
\* deletion with copy number 0 both pass; when it is "Activating", the
\* duplication with copy number 3 fails (the assertions of
\* test_passes_gene_inheritance).
C16_DosageAsTested ==
    \A t \in Range(test_passes_gene_inheritance) :
        t.mechanisms \in DosageMechanisms /\ AtGeneCase(t) => answer.value = t.expected

\* a deletion passed for a gene whose only mechanism is increased dosage
C16_Witness ==
    /\ GeneCalled("Monoallelic")
    /\ classifier.known_gene.inh["Monoallelic"] = {"Increased gene dosage"}
    /\ cnv_record.genotype = "DEL"
    /\ cnv_record.CNS = "0"
    /\ answer.value = "True"

LofOnly ==
    GeneCalled("Monoallelic") /\ classifier.known_gene.inh["Monoallelic"] = {"Loss of function"}

\* C17: under Monoallelic, for a gene whose only mechanism is "Loss of
\* function", passes_gene_inheritance fails a duplication that starts before
\* the gene and ends after it, passes the duplication when it does not
\* surround the gene, and passes a deletion either way.
C17_DisruptiveDuplication ==
    /\ LofOnly =>
        answer.value =
            Bool(~(/\ cnv_record.genotype = "DUP"
                   /\ cnv_record.position < classifier.known_gene.start
                   /\ cnv_record.end > classifier.known_gene.end))
    /\ \A t \in Range(test_passes_gene_inheritance_surrounding_disruptive_dup) :
           AtGeneCase(t) /\ cnv_record.position = t.position /\ cnv_record.end = t.end =>
               answer.value = t.expected

\* a duplication over 4000-7000 around the gene at 5000-6000 failed
C17_Witness ==
    /\ LofOnly
    /\ cnv_record.genotype = "DUP"
    /\ cnv_record.position = 4000
    /\ cnv_record.end = 7000
    /\ answer.value = "False"

StatusCalled == answer.fn = "inheritance_matches_parental_affected_status"

AParentAffected == classifier.father_status = "2" \/ classifier.mother_status = "2"

\* the state is the one an assertion of a biparental test is made in
AtStatusCase(t) ==
    /\ StatusCalled
    /\ cnv_record.INHERITANCE = t.INHERITANCE
    /\ cnv_record.CIFER_INHERITANCE = t.CIFER_INHERITANCE
    /\ cnv_record.CNS = t.CNS
    /\ classifier.father_status = t.father_status
    /\ classifier.mother_status = t.mother_status

\* C18 as stated: a biparentally inherited CNV passes exactly when at least
\* one parent is affected, whichever annotation carries the call and whatever
\* the copy number.
C18_BiparentalNeedsAffectedParent ==
    StatusCalled => answer.value = Bool(AParentAffected)

\* C18 amended: a biparentally inherited CNV passes when a parent is
\* affected; when neither is, the CNV with copy number 3 fails and the CNV
\* with copy number 0 passes, whichever annotation carries the call (the
\* assertions of the two biparental tests).
C18_BiparentalAsTested ==
    /\ StatusCalled /\ AParentAffected => answer.value = "True"
    /\ StatusCalled /\ ~AParentAffected /\ cnv_record.CNS = "3" => answer.value = "False"
    /\ \A t \in Range(test_inheritance_matches_parental_affected_status_biparental)
               \cup Range(test_inheritance_matches_parental_affected_status_biparental_copy_zero) :
           AtStatusCase(t) => answer.value = t.expected

\* a CNV with copy number 0 passed although neither parent is affected
C18_Witness ==
    /\ StatusCalled
    /\ ~AParentAffected
    /\ cnv_record.CNS = "0"
    /\ cnv_record.CIFER_INHERITANCE = "biparental"
    /\ answer.value = "True"

---------------------------------------------------------------------------
(* Claims about Filter.__init__ (SpecLoad) *)

\* __init__ is past the call of the loader: it returned or raised
Past(loader) ==
    \/ init_raised.in = loader
    \/ loader = "open_known_genes" /\ pc \in {"create_person_ID_mapper", "open_cnv_regions", "constructed"}
    \/ loader = "open_cnv_regions" /\ pc = "constructed"

\* C19: constructing Filter with known_genes=None or regions=None does not
\* raise in the loader of the missing table: the loader returns None, so that
\* self.known_genes, or self.cnv_regions, is None.
C19_NonePathLoadsNone ==
    /\ paths.known_genes = None /\ Past("open_known_genes") =>
           /\ init_raised.in # "open_known_genes"
           /\ self_filter.known_genes = Assigned(None)
    /\ paths.regions = None /\ Past("open_cnv_regions") =>
           /\ init_raised.in # "open_cnv_regions"
           /\ self_filter.cnv_regions = Assigned(None)

---------------------------------------------------------------------------
(* A further claim about create_gene_dict (SpecGeneDict) *)

\* the record is in the bucket of some key of genes_dict
Bucketed(var) == \E k \in 1..Len(genes_dict) : InList(var, genes_dict[k].val)

\* C20: every record passed to create_gene_dict is in at least one bucket of
\* the result, and a record whose get_genes() is empty is in the bucket of
\* None.
C20_EveryRecordBucketed ==
    pc # "start" =>
        \A i \in 1..Len(variants) :
            /\ Bucketed(variants[i])
            /\ get_genes(variants[i]) = <<>> =>
                   HasKey(genes_dict, None) /\ InList(variants[i], Get(genes_dict, None))

---------------------------------------------------------------------------
(* Claims about absent and attached parents (SpecDeNovo) *)

\* C21: for a record without an attached mother and/or father,
\* get_trio_genotype reports "NA" for each absent parent, and
\* passes_de_novo_checks returns a boolean for it (True: a trio genotype
\* holding "NA" is not the de novo genotype).
C21_AbsentParentIsNA ==
    /\ ~trio.mother.attached => get_trio_genotype(trio)[2] = NA
    /\ ~trio.father.attached => get_trio_genotype(trio)[3] = NA
    /\ pc = "checked" => passes \in {"True", "False"}
    /\ pc = "checked" /\ ~(trio.mother.attached /\ trio.father.attached) => passes = "True"

\* a record with the father attached and no mother, a heterozygous child and
\* no DENOVO flag was checked
C21_Witness ==
    /\ pc = "checked"
    /\ ~trio.mother.attached
    /\ trio.father.attached
    /\ trio.father.genotype = 0
    /\ trio.child = 1
    /\ trio.inheritance_type = "autosomal"
    /\ ~HasDeNovoFlag
    /\ passes = "True"

\* C22: a call of add_mother_variant or add_father_variant only fills a
\* parent slot that was empty: an attached parent is never replaced, and
\* the child and inheritance_type keep their values.
C22_ParentsAttachedOnce ==
    [][/\ trio.mother.attached => trio'.mother = trio.mother
       /\ trio.father.attached => trio'.father = trio.father
       /\ trio'.child = trio.child
       /\ trio'.inheritance_type = trio.inheritance_type]_vars

---------------------------------------------------------------------------
(* Claims about analyse_trio (Spec) *)

\* the positions of the log that hold a call of fn
CallsOf(fn) == {k \in 1..Len(log) : log[k].fn = fn}

\* C23: within analyse_trio exclude_duplicates is called at most once, and
\* once when the run reaches the post-inheritance filter; every find_variants
\* call precedes it, every gene bucket has had its find_variants call and
\* none of them raised; the post-inheritance filter is handed the very list
\* exclude_duplicates returned.
C23_MergeOnceAfterEveryBucket ==
    /\ Cardinality(CallsOf("exclude_duplicates")) <= 1
    /\ \A k \in CallsOf("exclude_duplicates") :
         /\ raised = "none"
         /\ \A j \in CallsOf("find_variants") : j < k
         /\ \A b \in 1..Len(genes_dict) :
              \E j \in CallsOf("find_variants") :
                 log[j].gene = genes_dict[b].key /\ log[j].arg = genes_dict[b].val
    /\ \A k \in CallsOf("filter_variants") :
         \E j \in CallsOf("exclude_duplicates") :
            j < k /\ log[k].arg = log[j].returned
    /\ pc = "done" => Cardinality(CallsOf("exclude_duplicates")) = 1

C23_Witness ==
    /\ pc = "done"
    /\ Len(genes_dict) = 2
    /\ Cardinality(CallsOf("find_variants")) = 2
    /\ \A j \in CallsOf("find_variants") : log[j].returned # <<>>
    /\ Len(unique_vars) < Len(arg_before)

\* the lists find_variants returned, bucket by bucket in processing order
BucketResults ==
    LET calls == SelectSeq(log, LAMBDA c : c.fn = "find_variants")
    IN [b \in 1..Len(calls) |-> calls[b].returned]

\* found_vars as lines 117-120 build it when the buckets are visited in `order`
RECURSIVE FoundIn(_, _, _)
FoundIn(results, order, b) ==
    IF b > Len(results) THEN <<>>
    ELSE results[order[b]] \o FoundIn(results, order, b + 1)

\* a candidate list up to the order of the list and of each tag list
AsSets(vs) ==
    {[key |-> get_key(v[1]), check_types |-> Range(v[2]),
      inheritance |-> Range(v[3]), genes |-> Range(v[4])] : v \in Range(vs)}

\* C24: whatever the order in which the gene buckets are processed, the
\* merged list holds the same record keys, each with the same set of check
\* types, of inheritance tags and of gene symbols.
C24_BucketOrderIrrelevant ==
    pc \in {"merged", "done"} =>
        \A order \in Permutations(1..Len(BucketResults)) :
            AsSets(exclude_duplicates(FoundIn(BucketResults, order, 1)))
                = AsSets(unique_vars)

C24_Witness ==
    /\ pc = "merged"
    /\ Len(unique_vars) < Len(arg_before)
    /\ \E order \in Permutations(1..Len(BucketResults)) :
         exclude_duplicates(FoundIn(BucketResults, order, 1)) # unique_vars

---------------------------------------------------------------------------
(* Claims about the argument of exclude_duplicates (SpecMerge) *)

\* C25: exclude_duplicates leaves its argument as it was: the input list and
\* the check-type, tag and gene lists of each of its candidates hold the
\* same elements after the call as before it.
C25_ArgumentUnchanged ==
    pc = "merged" => found_vars = arg_before

---------------------------------------------------------------------------
(* Claims about open_known_genes and open_file (SpecLoad) *)

\* the rows of the gene table open_known_genes does not skip (line 104)
Accepted == {i \in 1..Len(disk.genes) : disk.genes[i].status \in allowed_confirmed_statuses}

\* C26: once open_known_genes has returned, every accepted row of the file
\* with mode "Both" and mechanism m has m among the mechanisms of both the
\* "Monoallelic" and the "Biallelic" mode of its gene, whatever rows stand
\* before or after it.
C26_BothFillsBothModes ==
    self_filter.known_genes.set =>
        \A i \in Accepted :
            disk.genes[i].mode = "Both" =>
                LET inh == self_filter.known_genes.value[disk.genes[i].gene].inheritance
                IN /\ {"Monoallelic", "Biallelic"} \subseteq DOMAIN inh
                   /\ disk.genes[i].mech \in inh["Monoallelic"]
                   /\ disk.genes[i].mech \in inh["Biallelic"]

C26_Witness ==
    /\ self_filter.known_genes.set
    /\ Len(disk.genes) = 2
    /\ Accepted = {1, 2}
    /\ disk.genes[1].mode = "Monoallelic" /\ disk.genes[1].mech = "Loss of function"
    /\ disk.genes[2].mode = "Both" /\ disk.genes[2].mech = "Activating"
    /\ self_filter.known_genes.value["g1"].inheritance["Monoallelic"]
           = {"Loss of function", "Activating"}
    /\ self_filter.known_genes.value["g1"].inheritance["Biallelic"] = {"Activating"}

\* C27: once the gene file is open, open_known_genes loads the genes of a
\* table whose header is in either supported layout (DDG2P_Status or type)
\* and that retains a gene, and raises ValueError for a header in neither
\* layout and for a table that retains no gene; it raises nothing else.
C27_HeaderOutcomes ==
    /\ init_raised.in = "open_known_genes" /\ init_raised.exception \notin {"IOError", "TypeError"}
          => /\ init_raised.exception = "ValueError"
             /\ disk.header \notin {"DDG2P_Status", "type"} \/ Accepted = {}
    /\ self_filter.known_genes.set
          => disk.header \in {"DDG2P_Status", "type"} /\ Accepted # {}

C30_EntriesCarryInh ==
    self_filter.known_genes.set =>
        \A g \in DOMAIN self_filter.known_genes.value :
            {"inh", "status"} \subseteq DOMAIN self_filter.known_genes.value[g]

---------------------------------------------------------------------------
(* Claims about the hash of a record (SpecOrder) *)

\* C29: two records that compare equal have equal hashes, also when they
\* differ in their genotypes or in the spelling of their chromosome label.
C29_EqualRecordsHashEqual ==
    cmp.eq = "True" /\ cmp.hash_eq # "unset" => cmp.hash_eq = "True"

====
